---- MODULE Spec2Model ----
(***************************************************************************)
(* Model of the Latin matching constructor of the Erdos #983 library:      *)
(* find_latin_matching(left, right, n) of erdos983_lib.py, executed as a   *)
(* state machine (prologue, then one step per iteration of the nested      *)
(* candidate loops of backtrack, one step per return).                     *)
(*                                                                         *)
(* Indices are 1-based here (Python's are 0-based): left vertex i of the   *)
(* model is left[i-1] of the code, and "i == k" of the code is i = k + 1.  *)
(***************************************************************************)
EXTENDS Integers, Sequences, FiniteSets, TLC

VARIABLES left, right, n, pc, valid, assignment, used_pairs, right_degree,
          stack, result, tentative, memo, entered, op, arg, out

\* the state of a call of find_latin_matching and of its caller
searchvars == <<left, right, n, pc, valid, assignment, used_pairs, right_degree,
                stack, result, tentative, memo, entered>>

\* a call of one of the other library functions: its name, arguments, result
libvars == <<op, arg, out>>

vars == <<left, right, n, pc, valid, assignment, used_pairs, right_degree,
          stack, result, tentative, memo, entered, op, arg, out>>

(***************************************************************************)
(* Bounds and the inputs the calls are drawn from.                         *)
(***************************************************************************)
MaxLen == 3

BaseLeft == <<2, 3, 5, 7>>

BaseRight == <<7, 2, 3, 5, 5>>

ProductBounds == {15, 21, 49}

RepeatBounds == {15, 49}

Windows(base) ==
    {SubSeq(base, a, b) : a \in 1..(Len(base) + 1), b \in 0..Len(base)} \cap
    UNION {[1..m -> {base[x] : x \in 1..Len(base)}] : m \in 0..MaxLen}

Lefts == Windows(BaseLeft)

Rights == Windows(BaseRight)

\* the arguments of the calls of the repeated-call specification
RepeatLefts == {l \in Lefts : l = SubSeq(BaseLeft, 1, Len(l))}

(***************************************************************************)
(* Values of the program.                                                  *)
(***************************************************************************)
\* Python's None as a function result, and a returned list of edges.
None == [none |-> TRUE, edges |-> <<>>]

EdgeList(es) == [none |-> FALSE, edges |-> es]

\* assignment[i] = None
Unassigned == <<>>

\* pair = (min(j1, j2), max(j1, j2))
Pair(j1, j2) == <<IF j1 < j2 THEN j1 ELSE j2, IF j1 < j2 THEN j2 ELSE j1>>

\* variants of ValidList: the product test dropped; the indices in descending order
ValidListUnbounded(p, r, b) == [j \in 1..Len(r) |-> j]

ValidListDescending(p, r, b) ==
    SelectSeq([j \in 1..Len(r) |-> Len(r) + 1 - j], LAMBDA j : p * r[j] <= b)

\* valid[i] = [j for j, q in enumerate(right) if p * q <= n]
ValidList(p, r, b) ==
    SelectSeq([j \in 1..Len(r) |-> j], LAMBDA j : p * r[j] <= b)

ValidMap(l, r, b) == [i \in 1..Len(l) |-> ValidList(l[i], r, b)]

\* variant of SizeRejected: the length comparison dropped
SizeRejectedSmallOnly(l, r) == Len(l) < 2

\* if k != len(right) or k < 2: return None
SizeRejected(l, r) == Len(l) # Len(r) \/ Len(l) < 2

\* variant of DegreeRejected: the test dropped
DegreeNeverRejected(l, r, b) == FALSE

\* variant of DegreeRejected: one valid partner accepted
DegreeRejectedBelowOne(l, r, b) ==
    \E i \in 1..Len(l) : Len(SelectSeq([j \in 1..Len(r) |-> j],
                                        LAMBDA j : l[i] * r[j] <= b)) < 1

\* if len(valid[i]) < 2: return None   (for some left vertex i)
DegreeRejected(l, r, b) == \E i \in 1..Len(l) : Len(ValidList(l[i], r, b)) < 2

\* assignment = [None] * k
AssignmentInit(k) == [i \in 1..k |-> Unassigned]

\* variant of UsedPairsInit: the set of the previous call kept
UsedPairsKept(old) == old

\* used_pairs = set()
UsedPairsInit(old) == {}

\* variant of RightDegreeInit: the counters start at 1
RightDegreeInitOne(k) == [j \in 1..k |-> 1]

\* right_degree = [0] * k
RightDegreeInit(k) == [j \in 1..k |-> 0]

\* variant of PairUsed: the Latin test dropped
PairNeverUsed(pair, used) == FALSE

\* if pair in used_pairs: continue
\* variant of PairUsed: the pair is looked up in the other order
PairUsedReversed(pair, used) == <<pair[2], pair[1]>> \in used

PairUsed(pair, used) == pair \in used

\* variant of DegreeFull: a right vertex is full at degree 1
DegreeFullAtOne(deg, j1, j2) == deg[j1] >= 1 \/ deg[j2] >= 1

\* if right_degree[j1] >= 2 or right_degree[j2] >= 2: continue
\* variant of DegreeFull: a right vertex may take a third edge
DegreeFullAboveTwo(deg, j1, j2) == deg[j1] >= 3 \/ deg[j2] >= 3

\* variant of DegreeFull: the degree of the right vertices is not limited
DegreeNeverFull(deg, j1, j2) == FALSE

DegreeFull(deg, j1, j2) == deg[j1] >= 2 \/ deg[j2] >= 2

\* return all(d == 2 for d in right_degree)
AllDegreeTwo(deg) == \A j \in DOMAIN deg : deg[j] = 2

\* variants of BuildEdges: right[j1] emitted twice; the last left vertex left out
RECURSIVE BuildEdgesSameRight(_, _, _, _)
BuildEdgesSameRight(l, r, asg, i) ==
    IF i > Len(l) THEN <<>>
    ELSE <<  <<l[i], r[asg[i][1]]>>, <<l[i], r[asg[i][1]]>>  >>
         \o BuildEdgesSameRight(l, r, asg, i + 1)

RECURSIVE BuildEdgesShort(_, _, _, _)
BuildEdgesShort(l, r, asg, i) ==
    IF i >= Len(l) THEN <<>>
    ELSE <<  <<l[i], r[asg[i][1]]>>, <<l[i], r[asg[i][2]]>>  >>
         \o BuildEdgesShort(l, r, asg, i + 1)

\* the edges built from the assignment after a successful search
RECURSIVE BuildEdges(_, _, _, _)
BuildEdges(l, r, asg, i) ==
    IF i > Len(l) THEN <<>>
    ELSE <<  <<l[i], r[asg[i][1]]>>, <<l[i], r[asg[i][2]]>>  >>
         \o BuildEdges(l, r, asg, i + 1)

(***************************************************************************)
(* The frames of backtrack: stack[d] is the loop cursor <<idx1, idx2>> of  *)
(* backtrack(d - 1) of the code, the next candidate it examines, and       *)
(* entered[d] records the values that frame found when it was entered.     *)
(***************************************************************************)
\* the values backtrack works on, as they are when a frame is entered
Snapshot(asg, used, deg) ==
    [assignment |-> asg, used_pairs |-> used, right_degree |-> deg]

k == Len(left)

depth == Len(stack)

neighbors == valid[depth]

FirstCursor == <<1, 2>>

\* the loop header: next (idx1, idx2) of the nested range loops
NextCursor(c, len) ==
    IF c[2] < len THEN <<c[1], c[2] + 1>> ELSE <<c[1] + 1, c[1] + 2>>

LoopDone(c, len) == c[2] > len

Top == stack[depth]

WithTop(c) == [stack EXCEPT ![depth] = c]

(***************************************************************************)
(* Actions.                                                                *)
(***************************************************************************)
Init ==
    /\ left = <<>>
    /\ right = <<>>
    /\ n = 0
    /\ pc = "idle"
    /\ valid = <<>>
    /\ assignment = <<>>
    /\ used_pairs = {}
    /\ right_degree = <<>>
    /\ stack = <<>>
    /\ result = None
    /\ tentative = FALSE
    /\ memo = <<>>
    /\ entered = <<>>
    /\ op = "idle"
    /\ arg = <<>>
    /\ out = <<>>

\* A call that returns before line 195 never creates the search's locals.
NoLocals ==
    /\ entered' = <<>>
    /\ valid' = <<>>
    /\ assignment' = <<>>
    /\ used_pairs' = {}
    /\ right_degree' = <<>>
    /\ stack' = <<>>

\* A call: lines 183-197, up to the first call of backtrack(0).
Call(l, r, b) ==
    /\ pc \in {"idle", "done"}
    /\ left' = l
    /\ right' = r
    /\ n' = b
    /\ tentative' = FALSE
    /\ memo' = IF memo # <<>> /\ <<l, r, b>> # memo[1].input
                 THEN <<[memo[1] EXCEPT !.between = TRUE]>>
                 ELSE memo
    /\ IF SizeRejected(l, r)
         THEN /\ pc' = "done"
              /\ result' = None
              /\ NoLocals
         ELSE IF DegreeRejected(l, r, b)
         THEN /\ pc' = "done"
              /\ result' = None
              /\ NoLocals
         ELSE /\ pc' = "search"
              /\ valid' = ValidMap(l, r, b)
              /\ assignment' = AssignmentInit(Len(l))
              /\ used_pairs' = UsedPairsInit(used_pairs)
              /\ right_degree' = RightDegreeInit(Len(l))
              /\ stack' = <<FirstCursor>>
              /\ entered' = <<Snapshot(AssignmentInit(Len(l)),
                                       UsedPairsInit(used_pairs),
                                       RightDegreeInit(Len(l)))>>
              /\ UNCHANGED result
    /\ UNCHANGED libvars

\* One iteration of the nested loops whose candidate is skipped (continue).
Skip ==
    /\ pc = "search"
    /\ depth <= k
    /\ ~LoopDone(Top, Len(neighbors))
    /\ LET j1 == neighbors[Top[1]]
           j2 == neighbors[Top[2]]
       IN  /\ PairUsed(Pair(j1, j2), used_pairs) \/ DegreeFull(right_degree, j1, j2)
           /\ stack' = WithTop(NextCursor(Top, Len(neighbors)))
    /\ UNCHANGED <<left, right, n, pc, valid, assignment, used_pairs,
                   right_degree, result, tentative, memo, entered>>
    /\ UNCHANGED libvars

\* One iteration that makes the tentative assignment and calls backtrack(i + 1).
\* variant of Assign: the pair is not recorded in used_pairs
AssignNoRecord ==
    /\ pc = "search"
    /\ depth <= k
    /\ ~LoopDone(Top, Len(neighbors))
    /\ LET j1 == neighbors[Top[1]]
           j2 == neighbors[Top[2]]
       IN  /\ ~PairUsed(Pair(j1, j2), used_pairs)
           /\ ~DegreeFull(right_degree, j1, j2)
           /\ assignment' = [assignment EXCEPT ![depth] = <<j1, j2>>]
           /\ used_pairs' = used_pairs
           /\ right_degree' = [right_degree EXCEPT ![j1] = @ + 1, ![j2] = @ + 1]
           /\ stack' = Append(stack, FirstCursor)
    /\ entered' = Append(entered, Snapshot(assignment', used_pairs', right_degree'))
    /\ tentative' = TRUE
    /\ UNCHANGED <<left, right, n, pc, valid, result, memo>>
    /\ UNCHANGED libvars

Assign ==
    /\ pc = "search"
    /\ depth <= k
    /\ ~LoopDone(Top, Len(neighbors))
    /\ LET j1 == neighbors[Top[1]]
           j2 == neighbors[Top[2]]
       IN  /\ ~PairUsed(Pair(j1, j2), used_pairs)
           /\ ~DegreeFull(right_degree, j1, j2)
           /\ assignment' = [assignment EXCEPT ![depth] = <<j1, j2>>]
           /\ used_pairs' = used_pairs \cup {Pair(j1, j2)}
           /\ right_degree' = [right_degree EXCEPT ![j1] = @ + 1, ![j2] = @ + 1]
           /\ stack' = Append(stack, FirstCursor)
    /\ entered' = Append(entered, Snapshot(assignment', used_pairs', right_degree'))
    /\ tentative' = TRUE
    /\ UNCHANGED <<left, right, n, pc, valid, result, memo>>
    /\ UNCHANGED libvars

\* variant of Undo: the undone candidate is tried again
UndoNoAdvance(d) ==
    LET j1 == assignment[d][1]
        j2 == assignment[d][2]
    IN  /\ assignment' = [assignment EXCEPT ![d] = Unassigned]
        /\ used_pairs' = used_pairs \ {Pair(j1, j2)}
        /\ right_degree' = [right_degree EXCEPT ![j1] = @ - 1, ![j2] = @ - 1]
        /\ stack' = SubSeq(stack, 1, d)
        /\ entered' = SubSeq(entered, 1, d)

\* variant of Undo: the degree counters are not decremented
UndoKeepsDegree(d) ==
    LET j1 == assignment[d][1]
        j2 == assignment[d][2]
    IN  /\ assignment' = [assignment EXCEPT ![d] = Unassigned]
        /\ used_pairs' = used_pairs \ {Pair(j1, j2)}
        /\ UNCHANGED right_degree
        /\ stack' = [SubSeq(stack, 1, d) EXCEPT
                        ![d] = NextCursor(stack[d], Len(valid[d]))]
        /\ entered' = SubSeq(entered, 1, d)

\* The caller's lines after a failed backtrack(i + 1): undo, next candidate.
Undo(d) ==
    LET j1 == assignment[d][1]
        j2 == assignment[d][2]
    IN  /\ assignment' = [assignment EXCEPT ![d] = Unassigned]
        /\ used_pairs' = used_pairs \ {Pair(j1, j2)}
        /\ right_degree' = [right_degree EXCEPT ![j1] = @ - 1, ![j2] = @ - 1]
        /\ stack' = [SubSeq(stack, 1, d) EXCEPT
                        ![d] = NextCursor(stack[d], Len(valid[d]))]
        /\ entered' = SubSeq(entered, 1, d)

\* variant of ReturnFalse: an exhausted search returns an empty list
ReturnFalseEmptyList ==
    /\ pc = "search"
    /\ \/ depth <= k /\ LoopDone(Top, Len(neighbors))
       \/ depth = k + 1 /\ ~AllDegreeTwo(right_degree)
    /\ IF depth = 1
         THEN /\ pc' = "done"
              /\ result' = EdgeList(<<>>)
              /\ UNCHANGED <<assignment, used_pairs, right_degree, stack, entered>>
         ELSE /\ Undo(depth - 1)
              /\ UNCHANGED <<pc, result>>
    /\ UNCHANGED <<left, right, n, valid, tentative, memo>>
    /\ UNCHANGED libvars

\* backtrack(i) returns False: to its caller's undo, or out of the search.
ReturnFalse ==
    /\ pc = "search"
    /\ \/ depth <= k /\ LoopDone(Top, Len(neighbors))
       \/ depth = k + 1 /\ ~AllDegreeTwo(right_degree)
    /\ IF depth = 1
         THEN /\ pc' = "done"
              /\ result' = None
              /\ UNCHANGED <<assignment, used_pairs, right_degree, stack, entered>>
         ELSE /\ Undo(depth - 1)
              /\ UNCHANGED <<pc, result>>
    /\ UNCHANGED <<left, right, n, valid, tentative, memo>>
    /\ UNCHANGED libvars

\* variant of ReturnTrue: the edges loop consumes the list left
ReturnTrueConsuming ==
    /\ pc = "search"
    /\ depth = k + 1
    /\ AllDegreeTwo(right_degree)
    /\ pc' = "done"
    /\ result' = EdgeList(BuildEdges(left, right, assignment, 1))
    /\ left' = <<>>
    /\ UNCHANGED <<right, n, valid, assignment, used_pairs,
                   right_degree, stack, tentative, memo, entered>>
    /\ UNCHANGED libvars

\* backtrack(k) returns True, every frame returns True, the edges are built.
ReturnTrue ==
    /\ pc = "search"
    /\ depth = k + 1
    /\ AllDegreeTwo(right_degree)
    /\ pc' = "done"
    /\ result' = EdgeList(BuildEdges(left, right, assignment, 1))
    /\ UNCHANGED <<left, right, n, valid, assignment, used_pairs,
                   right_degree, stack, tentative, memo, entered>>
    /\ UNCHANGED libvars

\* The caller keeps the arguments and the result of one finished call.
Remember ==
    /\ pc = "done"
    /\ memo = <<>>
    /\ memo' = <<[input |-> <<left, right, n>>, result |-> result,
                  between |-> FALSE]>>
    /\ UNCHANGED <<left, right, n, pc, valid, assignment, used_pairs,
                   right_degree, stack, result, tentative, entered>>
    /\ UNCHANGED libvars

Next ==
    \/ \E l \in Lefts, r \in Rights, b \in ProductBounds : Call(l, r, b)
    \/ Skip
    \/ Assign
    \/ ReturnFalse
    \/ ReturnTrue

Spec == Init /\ [][Next]_vars

\* Repeated calls by a caller that keeps one earlier result to compare with.
NextRepeat ==
    \/ \E l \in RepeatLefts, r \in Rights, b \in RepeatBounds : Call(l, r, b)
    \/ Skip
    \/ Assign
    \/ ReturnFalse
    \/ ReturnTrue
    \/ Remember

SpecRepeat == Init /\ [][NextRepeat]_vars

\* The search steps are the sequential execution of one call: once a call is
\* in the search, its next step is always taken.
SearchStep == Skip \/ Assign \/ ReturnFalse \/ ReturnTrue

LiveSpec == Init /\ [][Next]_vars /\ WF_vars(SearchStep)

\* MANUAL_CONSTRUCTIONS
ManualNs == {100, 200, 400}

\* variant of ManualConstructions: the primes 2 and 3 get the same partners
ManualConstructionsShared(m) ==
    << <<2, 17>>, <<2, 19>>, <<3, 17>>, <<3, 19>>,
       <<5, 11>>, <<5, 13>>, <<7, 11>>, <<7, 13>> >>

ManualConstructions(m) ==
    IF m = 100 THEN << <<2, 13>>, <<2, 19>>, <<3, 11>>, <<3, 17>>,
                       <<5, 17>>, <<5, 19>>, <<7, 11>>, <<7, 13>> >>
    ELSE IF m = 200 THEN << <<2, 13>>, <<2, 19>>, <<3, 11>>, <<3, 17>>,
                            <<5, 17>>, <<5, 19>>, <<7, 11>>, <<7, 13>> >>
    ELSE << <<2, 17>>, <<2, 19>>, <<3, 13>>, <<3, 23>>, <<5, 19>>, <<5, 29>>,
            <<7, 17>>, <<7, 23>>, <<11, 13>>, <<11, 29>> >>

\* improved_solver.manual_construction
manual_construction(m) ==
    IF m = 100 THEN EdgeList(<< <<2, 13>>, <<2, 19>>, <<3, 11>>, <<3, 17>>,
                                <<5, 17>>, <<5, 19>>, <<7, 11>>, <<7, 13>> >>)
    ELSE IF m = 200 THEN EdgeList(<< <<2, 13>>, <<2, 19>>, <<3, 11>>, <<3, 17>>,
                                     <<5, 17>>, <<5, 19>>, <<7, 11>>, <<7, 13>> >>)
    ELSE IF m = 400 THEN EdgeList(<< <<2, 17>>, <<2, 19>>, <<3, 13>>, <<3, 23>>,
                                     <<5, 19>>, <<5, 29>>, <<7, 17>>, <<7, 23>>,
                                     <<11, 13>>, <<11, 29>> >>)
    ELSE None

\* The calls of the documented scenarios: the feasible one, the infeasible
\* one, the mismatched one, and the splits of the tabulated constructions.
FeasibleCall == << <<2, 3, 5, 7>>, <<11, 13, 17, 19>>, 100 >>

InfeasibleCall == << <<2, 3>>, <<89, 97>>, 50 >>

ScenarioCalls ==
    { FeasibleCall,
      InfeasibleCall,
      << <<2, 3>>, <<97>>, 100 >>,
      << <<2, 3, 5, 7>>, <<11, 13, 17, 19>>, 200 >>,
      << <<2, 3, 5, 7, 11>>, <<13, 17, 19, 23, 29>>, 400 >> }

NextScenario ==
    \/ \E c \in ScenarioCalls : Call(c[1], c[2], c[3])
    \/ Skip
    \/ Assign
    \/ ReturnFalse
    \/ ReturnTrue

SpecScenario == Init /\ [][NextScenario]_vars

\* The calls of Spec together with calls on four and five primes a side:
\* the scenarios, and a call whose last right prime has one partner only, so
\* that the search runs to exhaustion.
ExhaustedCall == << <<2, 3, 5, 7>>, <<11, 13, 17, 53>>, 106 >>

DeepCalls == ScenarioCalls \cup {ExhaustedCall}

NextDeep ==
    \/ \E l \in Lefts, r \in Rights, b \in ProductBounds : Call(l, r, b)
    \/ \E c \in DeepCalls : Call(c[1], c[2], c[3])
    \/ Skip
    \/ Assign
    \/ ReturnFalse
    \/ ReturnTrue

SpecDeep == Init /\ [][NextDeep]_vars

(***************************************************************************)
(* The other functions of the library, each computed as its code computes  *)
(* it.  Python lists are sequences, Python sets are sets.                  *)
(***************************************************************************)
\* int(n**0.5)
Isqrt(m) == CHOOSE s \in 0..m : s * s <= m /\ (s + 1) * (s + 1) > m

\* variant of SieveLastI: range(2, int(n**0.5))
SieveLastIShort(m) == Isqrt(m) - 1

\* the last i of range(2, int(n**0.5) + 1)
SieveLastI(m) == Isqrt(m)

\* for j in range(i*i, n + 1, i): is_prime[j] = False
MarkMultiples(a, i, m) ==
    [x \in 0..m |-> IF x >= i * i /\ (x - i * i) % i = 0 THEN FALSE ELSE a[x]]

RECURSIVE SieveLoop(_, _, _)
SieveLoop(a, i, m) ==
    IF i > SieveLastI(m) THEN a
    ELSE SieveLoop(IF a[i] THEN MarkMultiples(a, i, m) ELSE a, i + 1, m)

sieve_of_eratosthenes(m) ==
    IF m < 2 THEN <<>>
    ELSE LET is_prime == SieveLoop([x \in 0..m |-> x >= 2], 2, m)
         IN  SelectSeq([x \in 1..(m - 1) |-> x + 1], LAMBDA x : is_prime[x])

\* while temp % p == 0: temp //= p
RECURSIVE DivideOut(_, _)
DivideOut(temp, p) == IF temp % p = 0 THEN DivideOut(temp \div p, p) ELSE temp

\* the loop over primes: <<temp, factors>> when it ends or breaks
RECURSIVE FactorLoop(_, _, _, _)
FactorLoop(primes, idx, temp, factors) ==
    IF idx > Len(primes) THEN <<temp, factors>>
    ELSE LET p == primes[idx]
         IN  IF p * p > temp THEN <<temp, factors>>
             ELSE IF temp % p = 0
                  THEN FactorLoop(primes, idx + 1, DivideOut(temp, p), factors \cup {p})
                  ELSE FactorLoop(primes, idx + 1, temp, factors)

\* variant of prime_factorization: the remainder is not added
prime_factorization_no_remainder(m, primes) ==
    IF m <= 1 THEN {} ELSE FactorLoop(primes, 1, m, {})[2]

prime_factorization(m, primes) ==
    IF m <= 1 THEN {}
    ELSE LET end == FactorLoop(primes, 1, m, {})
         IN  IF end[1] > 1 THEN end[2] \cup {end[1]} ELSE end[2]

\* helpers for Python's sorted(), set(list) and min()
Min(S) == CHOOSE x \in S : \A y \in S : x <= y

RECURSIVE SortedSeq(_)
SortedSeq(S) == IF S = {} THEN <<>> ELSE <<Min(S)>> \o SortedSeq(S \ {Min(S)})

SeqSet(s) == {s[x] : x \in 1..Len(s)}

\* factor_cache = {e: prime_factorization(e, primes) for e in A}
FactorCache(A, primes) == [e \in SeqSet(A) |-> prime_factorization(e, primes)]

\* relevant = sorted(set().union(*factor_cache.values()))
Relevant(factor_cache) ==
    SortedSeq(UNION {factor_cache[e] : e \in DOMAIN factor_cache})

compute_coverage(elements, prime_set, factor_cache) ==
    Cardinality({x \in 1..Len(elements) : factor_cache[elements[x]] \subseteq prime_set})

\* variant of Covers: "at least r"
CoversAtLeast(coverage, r) == coverage >= r

\* the test "coverage > r" of both searches
Covers(coverage, r) == coverage > r

\* if r <= 12
ExhaustiveMaxR == 12

\* relevant[:min(30, len(relevant))]
SearchSpaceSize == 30

\* the order in which combinations() yields two r-subsets of a sorted list
ComboBefore(c, d) == Min((c \ d) \cup (d \ c)) \in c

\* the combinations of the search space that pass the test
GoodCombos(A, search_space, r, factor_cache) ==
    {c \in SUBSET search_space :
        /\ Cardinality(c) = r
        /\ Covers(compute_coverage(A, c, factor_cache), r)}

FirstCombo(good) == CHOOSE c \in good : \A d \in good \ {c} : ComboBefore(c, d)

\* one round of the greedy search: best_prime, 0 standing for None
BestPrime(A, relevant, chosen, factor_cache) ==
    LET current_cov == compute_coverage(A, chosen, factor_cache)
        gain(p) == compute_coverage(A, chosen \cup {p}, factor_cache) - current_cov
        improving == {p \in SeqSet(relevant) \ chosen : gain(p) > 0}
    IN  IF improving = {} THEN 0
        ELSE Min({p \in improving : \A q \in improving : gain(q) <= gain(p)})

RECURSIVE Greedy(_, _, _, _, _)
Greedy(A, relevant, chosen, rounds, factor_cache) ==
    IF rounds = 0 THEN chosen
    ELSE LET best_prime == BestPrime(A, relevant, chosen, factor_cache)
         IN  Greedy(A, relevant,
                    IF best_prime # 0 THEN chosen \cup {best_prime} ELSE chosen,
                    rounds - 1, factor_cache)

\* the loop "for r in range(1, min(max_r + 1, len(relevant) + 1))"
RECURSIVE ComputeFLoop(_, _, _, _, _)
ComputeFLoop(A, relevant, r, max_r, factor_cache) ==
    IF r > max_r \/ r > Len(relevant) THEN <<max_r + 1, <<>>>>
    ELSE LET search_space ==
                 SeqSet(SubSeq(relevant, 1, Min({SearchSpaceSize, Len(relevant)})))
             good == IF r <= ExhaustiveMaxR /\ Cardinality(search_space) >= r
                     THEN GoodCombos(A, search_space, r, factor_cache)
                     ELSE {}
             chosen == Greedy(A, relevant, {}, r, factor_cache)
         IN  IF good # {} THEN <<r, SortedSeq(FirstCombo(good))>>
             ELSE IF Covers(compute_coverage(A, chosen, factor_cache), r)
                  THEN <<r, SortedSeq(chosen)>>
                  ELSE ComputeFLoop(A, relevant, r + 1, max_r, factor_cache)

compute_f(A, primes, max_r) ==
    LET factor_cache == FactorCache(A, primes)
    IN  ComputeFLoop(A, Relevant(factor_cache), 1, max_r, factor_cache)

(***************************************************************************)
(* find_latin_matching as a function of its arguments: the same prologue   *)
(* and the same search as the actions above, run to its end.               *)
(***************************************************************************)
RECURSIVE Backtrack(_, _, _, _, _)
RECURSIVE TryFrom(_, _, _, _, _, _)
\* backtrack(i - 1): found tells True from False
Backtrack(v, i, asg, used, deg) ==
    IF i = Len(v) + 1 THEN [found |-> AllDegreeTwo(deg), assignment |-> asg]
    ELSE TryFrom(v, i, FirstCursor, asg, used, deg)

\* the two loops of backtrack(i - 1) from the cursor c on
TryFrom(v, i, c, asg, used, deg) ==
    IF LoopDone(c, Len(v[i])) THEN [found |-> FALSE, assignment |-> asg]
    ELSE LET j1 == v[i][c[1]]
             j2 == v[i][c[2]]
         IN  IF PairUsed(Pair(j1, j2), used) \/ DegreeFull(deg, j1, j2)
             THEN TryFrom(v, i, NextCursor(c, Len(v[i])), asg, used, deg)
             ELSE LET deeper ==
                          Backtrack(v, i + 1,
                                    [asg EXCEPT ![i] = <<j1, j2>>],
                                    used \cup {Pair(j1, j2)},
                                    [deg EXCEPT ![j1] = @ + 1, ![j2] = @ + 1])
                  IN  IF deeper.found THEN deeper
                      ELSE TryFrom(v, i, NextCursor(c, Len(v[i])), asg, used, deg)

find_latin_matching(l, r, b) ==
    IF SizeRejected(l, r) THEN None
    ELSE IF DegreeRejected(l, r, b) THEN None
    ELSE LET end == Backtrack(ValidMap(l, r, b), 1, AssignmentInit(Len(l)),
                              UsedPairsInit({}), RightDegreeInit(Len(l)))
         IN  IF end.found THEN EdgeList(BuildEdges(l, r, end.assignment, 1))
             ELSE None

(***************************************************************************)
(* find_best_matching.  A try is <<split, size, l_start, r_start>>.        *)
(***************************************************************************)
\* the loops: split in range(2, t - 1), size in range(min_size, 1, -1),
\* l_start in range(len(left) - size + 1), r_start likewise
TrySet(t) ==
    {x \in (2..(t - 2)) \X (2..t) \X (0..t) \X (0..t) :
        /\ x[2] <= x[1] /\ x[2] <= t - x[1]
        /\ x[3] <= x[1] - x[2]
        /\ x[4] <= t - x[1] - x[2]}

\* the order of the loops: split up, size down, l_start up, r_start up
TryBefore(x, y) ==
    \/ x[1] < y[1]
    \/ x[1] = y[1] /\ x[2] > y[2]
    \/ x[1] = y[1] /\ x[2] = y[2] /\ x[3] < y[3]
    \/ x[1] = y[1] /\ x[2] = y[2] /\ x[3] = y[3] /\ x[4] < y[4]

\* l_sub = left[l_start:l_start + size]
LSub(small, x) == SubSeq(small, x[3] + 1, x[3] + x[2])

\* r_sub = right[r_start:r_start + size]
RSub(small, x) == SubSeq(small, x[1] + x[4] + 1, x[1] + x[4] + x[2])

\* variant of Better: a later matching of the same size replaces the kept one
BetterOrEqual(len, best_size) == len >= best_size

\* len(edges) > best_size
Better(len, best_size) == len > best_size

RECURSIVE BestOver(_, _, _, _)
BestOver(small, b, tries, best_edges) ==
    IF tries = {} THEN best_edges
    ELSE LET x == CHOOSE x \in tries : \A y \in tries \ {x} : TryBefore(x, y)
             edges == find_latin_matching(LSub(small, x), RSub(small, x), b)
         IN  BestOver(small, b, tries \ {x},
                      IF /\ ~edges.none
                         /\ edges.edges # <<>>
                         /\ Better(Len(edges.edges), Len(best_edges))
                      THEN edges.edges
                      ELSE best_edges)

find_best_matching(small, b) ==
    IF Len(small) < 4 THEN <<>>
    ELSE BestOver(small, b, TrySet(Len(small)), <<>>)

(***************************************************************************)
(* build_adversarial_set(n, eps), eps given in tenths: eps = e / 10.       *)
(***************************************************************************)
\* p <= (2 - eps) * sqrt(n), squared and multiplied by 100
IsSmall(p, m, e) == 100 * p * p <= (20 - e) * (20 - e) * m

NoSet == [none |-> TRUE]

\* for p in large[1:]: if len(A) >= target: break; A.add(p)
RECURSIVE Fill(_, _, _, _)
Fill(A, large, idx, target) ==
    IF idx > Len(large) \/ Cardinality(A) >= target THEN A
    ELSE Fill(A \cup {large[idx]}, large, idx + 1, target)

build_adversarial_set(m, e) ==
    LET primes == sieve_of_eratosthenes(m)
        small == SelectSeq(primes, LAMBDA p : IsSmall(p, m, e))
        large == SelectSeq(primes, LAMBDA p : ~IsSmall(p, m, e))
        edges == IF m \in ManualNs THEN ManualConstructions(m)
                 ELSE find_best_matching(small, m)
        A0 == SortedSeq({edges[x][1] * edges[x][2] : x \in 1..Len(edges)})
        p_t1 == large[1]
        extras == (IF 2 * p_t1 <= m THEN <<2 * p_t1>> ELSE <<>>)
                     \o (IF 3 * p_t1 <= m THEN <<3 * p_t1>> ELSE <<>>)
        target == Len(primes) + 1
    IN  IF Len(small) < 4 \/ large = <<>> THEN NoSet
        ELSE IF edges = <<>> THEN NoSet
        ELSE [none |-> FALSE,
              n |-> m,
              A |-> SortedSeq(Fill(SeqSet(A0) \cup SeqSet(extras), large, 2, target)),
              A0 |-> A0,
              extras |-> extras,
              edges |-> edges,
              t |-> Len(small),
              first_large_prime |-> p_t1]

(***************************************************************************)
(* Calls of the library functions: one call at a time, applied to          *)
(* arguments drawn from bounded sets.                                      *)
(***************************************************************************)
MaxSieveN == 50

MaxFactorN == 50

FactorPrimeLists ==
    {sieve_of_eratosthenes(b) : b \in {0, 2, 3, 5, 7}} \cup {<<3, 2>>}

\* the lists A of compute_f: the sublists of ComputeFBase, a list with a
\* repeated element, and the edges of a cycle through 13 primes with one chord
ComputeFBase == <<2, 4, 6, 10, 15, 30>>

SubList(s, I) == [x \in 1..Cardinality(I) |-> s[SortedSeq(I)[x]]]

ThetaGraph ==
    <<6, 15, 35, 77, 143, 221, 323, 437, 667, 899, 1147, 1517, 82, 34>>

ComputeFLists ==
    {SubList(ComputeFBase, I) : I \in SUBSET (1..Len(ComputeFBase))}
        \cup {<<6, 6, 6>>, ThetaGraph}

ComputeFMaxRs == {1, 2, 50}

\* primes: "Precomputed list of all primes up to max(A)"; the primes up to
\* 41 are adequate for every element of the lists (41 * 41 > 1517)
ComputeFPrimes == sieve_of_eratosthenes(41)

\* the arguments of find_best_matching: the first primes, up to MaxSmall of
\* them, and some bounds n
MaxSmall == 8

SmallPrimeBase == <<2, 3, 5, 7, 11, 13, 17, 19, 23, 29>>

SmallLists == {SubSeq(SmallPrimeBase, 1, len) : len \in 0..MaxSmall}

BestBounds == {20, 55, 81, 100, 200}

\* the arguments of build_adversarial_set
BuildNs == {10, 55, 81, 100, 200, 400}

EpsTenths == {1, 5}

CallSieve(m) ==
    /\ op = "idle"
    /\ op' = "sieve"
    /\ arg' = m
    /\ out' = sieve_of_eratosthenes(m)
    /\ UNCHANGED searchvars

CallFactor(m, primes) ==
    /\ op = "idle"
    /\ op' = "factor"
    /\ arg' = <<m, primes>>
    /\ out' = prime_factorization(m, primes)
    /\ UNCHANGED searchvars

CallComputeF(A, primes, max_r) ==
    /\ op = "idle"
    /\ op' = "compute_f"
    /\ arg' = <<A, primes, max_r>>
    /\ out' = compute_f(A, primes, max_r)
    /\ UNCHANGED searchvars

CallFindBest(small, b) ==
    /\ op = "idle"
    /\ op' = "best"
    /\ arg' = <<small, b>>
    /\ out' = find_best_matching(small, b)
    /\ UNCHANGED searchvars

CallBuild(m, e) ==
    /\ op = "idle"
    /\ op' = "build"
    /\ arg' = <<m, e>>
    /\ out' = build_adversarial_set(m, e)
    /\ UNCHANGED searchvars

CallManual(m) ==
    /\ op = "idle"
    /\ op' = "manual"
    /\ arg' = m
    /\ out' = manual_construction(m)
    /\ UNCHANGED searchvars

\* the caller takes the result
LibReturn ==
    /\ op # "idle"
    /\ op' = "idle"
    /\ arg' = <<>>
    /\ out' = <<>>
    /\ UNCHANGED searchvars

NextLib ==
    \/ \E m \in (0 - 1)..MaxSieveN : CallSieve(m)
    \/ \E m \in 0..MaxFactorN, primes \in FactorPrimeLists : CallFactor(m, primes)
    \/ \E A \in ComputeFLists, max_r \in ComputeFMaxRs :
          CallComputeF(A, ComputeFPrimes, max_r)
    \/ \E small \in SmallLists, b \in BestBounds : CallFindBest(small, b)
    \/ \E m \in BuildNs, e \in EpsTenths : CallBuild(m, e)
    \/ \E m \in BuildNs : CallManual(m)
    \/ LibReturn

SpecLib == Init /\ [][NextLib]_vars

(***************************************************************************)
(* ExperimentRunner.run_experiment.  A trial is its position in the list   *)
(* given by the caller; max_trials is absent (None) when given is FALSE.   *)
(* op = "running" while the loop over trials_to_run runs, "ran" after the  *)
(* return; out holds the fields of run and the list results.               *)
(***************************************************************************)
MaxTrials == 3

TrialLists == {[x \in 1..len |-> x] : len \in 0..MaxTrials}

MaxTrialsArgs == 0..(MaxTrials + 1)

TrialOutcomes == {"correct", "incorrect", "error"}

\* trials[:max_trials]
PySlice(s, m) ==
    IF m >= 0 THEN SubSeq(s, 1, IF m < Len(s) THEN m ELSE Len(s))
    ELSE SubSeq(s, 1, IF Len(s) + m > 0 THEN Len(s) + m ELSE 0)

\* total_trials=len(trials) if max_trials is None else min(len(trials), max_trials)
TotalTrials(trials, given, max_trials) ==
    IF ~given THEN Len(trials)
    ELSE IF Len(trials) < max_trials THEN Len(trials) ELSE max_trials

\* trials_to_run = trials[:max_trials] if max_trials else trials
TrialsToRun(trials, given, max_trials) ==
    IF given /\ max_trials # 0 THEN PySlice(trials, max_trials) ELSE trials

trials_to_run == TrialsToRun(arg.trials, arg.given, arg.max_trials)

\* the TrialResult of one pass of the loop body
TrialResult(trial, outcome) ==
    [trial_id |-> trial,
     error |-> outcome = "error",
     is_correct |-> IF outcome = "error" THEN "None"
                    ELSE IF outcome = "correct" THEN "True" ELSE "False"]

RunExperiment(trials, given, max_trials) ==
    /\ op = "idle"
    /\ op' = "running"
    /\ arg' = [trials |-> trials, given |-> given, max_trials |-> max_trials]
    /\ out' = [total_trials |-> TotalTrials(trials, given, max_trials),
               completed_trials |-> 0,
               results |-> <<>>,
               saved |-> FALSE]
    /\ UNCHANGED searchvars

\* one pass of "for i, trial in enumerate(trials_to_run)"
RunTrial(outcome) ==
    /\ op = "running"
    /\ Len(out.results) < Len(trials_to_run)
    /\ LET trial == trials_to_run[Len(out.results) + 1]
           results == Append(out.results, TrialResult(trial, outcome))
       IN  out' = [out EXCEPT !.results = results,
                              !.completed_trials = Len(results)]
    /\ UNCHANGED <<op, arg>>
    /\ UNCHANGED searchvars

\* the loop is over: end_time, _save_final, return results
RunFinish ==
    /\ op = "running"
    /\ Len(out.results) = Len(trials_to_run)
    /\ op' = "ran"
    /\ out' = [out EXCEPT !.saved = TRUE]
    /\ UNCHANGED arg
    /\ UNCHANGED searchvars

\* the caller takes the results
RunReturn ==
    /\ op = "ran"
    /\ op' = "idle"
    /\ arg' = <<>>
    /\ out' = <<>>
    /\ UNCHANGED searchvars

NextRunner ==
    \/ \E trials \in TrialLists, max_trials \in MaxTrialsArgs :
          RunExperiment(trials, TRUE, max_trials)
    \/ \E trials \in TrialLists : RunExperiment(trials, FALSE, 0)
    \/ \E outcome \in TrialOutcomes : RunTrial(outcome)
    \/ RunFinish
    \/ RunReturn

SpecRunner == Init /\ [][NextRunner]_vars

(***************************************************************************)
(* The other copies of the constructor.  Their backtrack is the code of    *)
(* erdos983_lib line for line; they differ in the prologue and in the      *)
(* value that signals failure.                                             *)
(***************************************************************************)
\* "if backtrack(0): ... return edges", else the failure value of the copy
SearchResult(l, r, b, failure) ==
    LET end == Backtrack(ValidMap(l, r, b), 1, AssignmentInit(Len(l)),
                         UsedPairsInit({}), RightDegreeInit(Len(l)))
    IN  IF end.found THEN EdgeList(BuildEdges(l, r, end.assignment, 1))
        ELSE failure

\* constraint_solver.find_latin_matching
constraint_solver_find_latin_matching(l, r, b) ==
    IF Len(l) # Len(r) THEN None
    ELSE IF Len(l) = 0 THEN EdgeList(<<>>)
    ELSE IF DegreeRejected(l, r, b) THEN None
    ELSE SearchResult(l, r, b, None)

\* variant of find_latin_matching_bt: the two edges of a left vertex are
\* listed in the other order
find_latin_matching_bt_swapped(l, r, b) ==
    IF Len(l) # Len(r) \/ Len(l) = 0 THEN None
    ELSE IF DegreeRejected(l, r, b) THEN None
    ELSE LET found == SearchResult(l, r, b, None)
         IN  IF found.none THEN None
             ELSE EdgeList([e \in 1..Len(found.edges) |->
                              found.edges[IF e % 2 = 1 THEN e + 1 ELSE e - 1]])

\* improved_solver.find_latin_matching_bt
find_latin_matching_bt(l, r, b) ==
    IF Len(l) # Len(r) \/ Len(l) = 0 THEN None
    ELSE IF DegreeRejected(l, r, b) THEN None
    ELSE SearchResult(l, r, b, None)

\* archive comprehensive_analysis.build_latin_matching: [] signals failure
build_latin_matching(l, r, b) ==
    IF Len(l) # Len(r) \/ Len(l) < 2 THEN EdgeList(<<>>)
    ELSE IF DegreeRejected(l, r, b) THEN EdgeList(<<>>)
    ELSE SearchResult(l, r, b, EdgeList(<<>>))

(***************************************************************************)
(* archive adversarial_graph.build_adversarial_bipartite: brute force over *)
(* pairs of permutations of right.  A permutation is the sequence of the   *)
(* positions it takes from right; permutations() yields them in the order  *)
(* SeqBefore.                                                              *)
(***************************************************************************)
BruteForceMax == 4

PermutationsOf(len) ==
    {p \in [1..len -> 1..len] : \A i, j \in 1..len : i # j => p[i] # p[j]}

SeqBefore(p, q) ==
    \E i \in 1..Len(p) : p[i] < q[i] /\ \A j \in 1..(i - 1) : p[j] = q[j]

\* the order of "for perm1 ...: for perm2 ..."
PermPairBefore(x, y) ==
    SeqBefore(x[1], y[1]) \/ (x[1] = y[1] /\ SeqBefore(x[2], y[2]))

\* edges of one pass: left[i] connects to perm1[i] and perm2[i]
PermEdges(l, r, perm1, perm2) ==
    [e \in 1..(2 * Len(l)) |->
        <<l[(e + 1) \div 2],
          r[IF e % 2 = 1 THEN perm1[(e + 1) \div 2] ELSE perm2[(e + 1) \div 2]]>>]

\* tuple(sorted([perm1[i], perm2[i]]))
SortedPair(q1, q2) == <<IF q1 < q2 THEN q1 ELSE q2, IF q1 < q2 THEN q2 ELSE q1>>

\* variant of PairsDistinct: two left vertices may share their pair
PairsMayRepeat(l, r, perm1, perm2) == TRUE

\* "if pair in pairs: valid_match = False"
PairsDistinct(l, r, perm1, perm2) ==
    \A i, j \in 1..Len(l) :
        i # j => SortedPair(r[perm1[i]], r[perm2[i]])
                    # SortedPair(r[perm1[j]], r[perm2[j]])

\* the tests one pass must get through to reach "return edges"
ValidMatch(l, r, b, perm1, perm2) ==
    /\ \A i \in 1..Len(l) :
          /\ r[perm1[i]] # r[perm2[i]]
          /\ l[i] * r[perm1[i]] <= b
          /\ l[i] * r[perm2[i]] <= b
    /\ LET edges == PermEdges(l, r, perm1, perm2)
       IN  \A j \in 1..Len(r) :
              Cardinality({e \in 1..Len(edges) : edges[e][2] = r[j]}) = 2
    /\ PairsDistinct(l, r, perm1, perm2)

build_adversarial_bipartite(l, r, b) ==
    IF Len(l) # Len(r) THEN None
    ELSE IF Len(l) > BruteForceMax THEN None
    ELSE LET perms == PermutationsOf(Len(r))
             passing == {x \in perms \X perms : ValidMatch(l, r, b, x[1], x[2])}
             first == CHOOSE x \in passing :
                          \A y \in passing \ {x} : PermPairBefore(x, y)
         IN  IF passing = {} THEN None
             ELSE EdgeList(PermEdges(l, r, first[1], first[2]))

\* calls of the constructors: the calls of Spec and the deeper ones
ConstructorCalls == (Lefts \X Rights \X ProductBounds) \cup DeepCalls

CallCopies(l, r, b) ==
    /\ op = "idle"
    /\ op' = "copies"
    /\ arg' = <<l, r, b>>
    /\ out' = [erdos983_lib |-> find_latin_matching(l, r, b),
               constraint_solver |-> constraint_solver_find_latin_matching(l, r, b),
               improved_solver |-> find_latin_matching_bt(l, r, b),
               comprehensive_analysis |-> build_latin_matching(l, r, b)]
    /\ UNCHANGED searchvars

CallBruteForce(l, r, b) ==
    /\ op = "idle"
    /\ op' = "brute"
    /\ arg' = <<l, r, b>>
    /\ out' = [adversarial_graph |-> build_adversarial_bipartite(l, r, b),
               erdos983_lib |-> find_latin_matching(l, r, b)]
    /\ UNCHANGED searchvars

NextConstructors ==
    \/ \E c \in ConstructorCalls : CallCopies(c[1], c[2], c[3])
    \/ \E c \in ConstructorCalls : CallBruteForce(c[1], c[2], c[3])
    \/ LibReturn

SpecConstructors == Init /\ [][NextConstructors]_vars

(***************************************************************************)
(* Vocabulary of the properties: what a Latin matching is, stated without  *)
(* the search.                                                             *)
(***************************************************************************)
Done == pc = "done"

Succeeded == Done /\ ~result.none

DupFree(s) == \A a, b \in 1..Len(s) : a # b => s[a] # s[b]

EdgeIndexes == 1..Len(result.edges)

\* left vertices that may be joined to right vertex j, and the converse
LeftPartners(l, r, b, j) == {i \in 1..Len(l) : l[i] * r[j] <= b}

RightPartners(l, r, b, i) == {j \in 1..Len(r) : l[i] * r[j] <= b}

LeftInsufficient(l, r, b) ==
    \E i \in 1..Len(l) : Cardinality(RightPartners(l, r, b, i)) < 2

RightInsufficient(l, r, b) ==
    \E j \in 1..Len(r) : Cardinality(LeftPartners(l, r, b, j)) < 2

IndexPairs(m) == {p \in (1..m) \X (1..m) : p[1] < p[2]}

\* every assignment of one pair of right indices to each left vertex that is
\* within the product bound, 2-regular on the right and Latin
LatinAssignments(l, r, b) ==
    {a \in [1..Len(l) -> IndexPairs(Len(r))] :
        /\ \A i \in 1..Len(l) : {a[i][1], a[i][2]} \subseteq RightPartners(l, r, b, i)
        /\ \A j \in 1..Len(r) :
              Cardinality({i \in 1..Len(l) : j \in {a[i][1], a[i][2]}}) = 2
        /\ \A i1, i2 \in 1..Len(l) : i1 # i2 => a[i1] # a[i2]}

PairLess(p, q) == p[1] < q[1] \/ (p[1] = q[1] /\ p[2] < q[2])

LexLess(a, b) ==
    \E i \in DOMAIN a : /\ \A m \in 1..(i - 1) : a[m] = b[m]
                        /\ PairLess(a[i], b[i])

\* the failure causes of the error taxonomy
FailureCause(l, r, b) ==
    IF Len(l) # Len(r) THEN "SizeMismatch"
    ELSE IF LeftInsufficient(l, r, b) \/ RightInsufficient(l, r, b)
         THEN "InsufficientDegree"
    ELSE IF LatinAssignments(l, r, b) = {} THEN "NoValidMatching"
    ELSE "none"

Remembered == memo # <<>>

(***************************************************************************)
(* C1. Degree invariant: in every matching returned for duplicate-free     *)
(* lists, every element of left is the left end of exactly 2 returned      *)
(* edges and every element of right the right end of exactly 2.            *)
(***************************************************************************)
C1_DegreeInvariant ==
    (Succeeded /\ DupFree(left) /\ DupFree(right)) =>
        /\ \A i \in 1..Len(left) :
              Cardinality({e \in EdgeIndexes : result.edges[e][1] = left[i]}) = 2
        /\ \A j \in 1..Len(right) :
              Cardinality({e \in EdgeIndexes : result.edges[e][2] = right[j]}) = 2

C1_Witness ==
    /\ Succeeded /\ DupFree(left) /\ DupFree(right)
    /\ Len(left) = 3
    /\ assignment[1] # <<1, 2>>

(***************************************************************************)
(* C2. Latin uniqueness: in every returned matching two distinct left      *)
(* vertices never have the same unordered pair of right neighbours (as     *)
(* right vertices, and as right values when right has no duplicates).      *)
(***************************************************************************)
C2_LatinUniqueness ==
    Succeeded =>
        \A i1, i2 \in 1..Len(left) : i1 # i2 =>
            /\ {assignment[i1][1], assignment[i1][2]}
                 # {assignment[i2][1], assignment[i2][2]}
            /\ DupFree(right) =>
                 {result.edges[2 * i1 - 1][2], result.edges[2 * i1][2]}
                   # {result.edges[2 * i2 - 1][2], result.edges[2 * i2][2]}

C2_Witness ==
    /\ Succeeded
    /\ Len(left) = 3
    /\ Cardinality(used_pairs) = 3

(***************************************************************************)
(* C3. Product bound: every returned edge (p, q) has p * q <= n.           *)
(***************************************************************************)
C3_ProductBound ==
    Succeeded => \A e \in EdgeIndexes : result.edges[e][1] * result.edges[e][2] <= n

C3_Witness ==
    /\ Succeeded
    /\ \E i \in 1..Len(left), j \in 1..Len(right) : left[i] * right[j] > n

(***************************************************************************)
(* C4. Completeness: for equal lengths k >= 2 the call fails exactly when  *)
(* no Latin assignment exists.                                             *)
(***************************************************************************)
C4_Completeness ==
    (Done /\ Len(left) = Len(right) /\ Len(left) >= 2) =>
        (result.none <=> LatinAssignments(left, right, n) = {})

C4_Witness ==
    /\ Done /\ Len(left) = Len(right) /\ Len(left) >= 3
    /\ result.none
    /\ tentative

(***************************************************************************)
(* C5 (as stated). Insufficient-degree check: if any vertex, left or       *)
(* right, has fewer than 2 valid partners, the call fails at once, before  *)
(* any tentative assignment of the search.                                 *)
(***************************************************************************)
C5_AsStated ==
    (pc # "idle" /\ (LeftInsufficient(left, right, n) \/ RightInsufficient(left, right, n)))
        => (~tentative /\ (Done => result = None))

(***************************************************************************)
(* C5 (amended). If a left vertex has fewer than 2 valid partners the call *)
(* fails at once, before any tentative assignment; if only a right vertex  *)
(* has, the call fails as well, but only after tentative assignments.      *)
(***************************************************************************)
C5_LeftChecked ==
    /\ (pc # "idle" /\ LeftInsufficient(left, right, n))
          => (Done /\ result = None /\ ~tentative)
    /\ (Done /\ RightInsufficient(left, right, n)) => result = None
    /\ (Done /\ RightInsufficient(left, right, n) /\ ~LeftInsufficient(left, right, n)
             /\ Len(left) = Len(right) /\ Len(left) >= 2) => tentative

C5_Witness ==
    /\ Done
    /\ Len(left) = Len(right) /\ Len(left) >= 2
    /\ LeftInsufficient(left, right, n)
    /\ Cardinality(RightPartners(left, right, n, 1)) >= 2

(***************************************************************************)
(* C6. Size mismatch: when len(left) # len(right) the call returns failure *)
(* and no search step is performed (backtrack is never entered).           *)
(***************************************************************************)
C6_SizeMismatch ==
    (pc # "idle" /\ Len(left) # Len(right))
        => (Done /\ result = None /\ ~tentative /\ stack = <<>>)

C6_Witness ==
    /\ Done
    /\ Len(left) = 2 /\ Len(right) = 1
    /\ result = None

(***************************************************************************)
(* C7 (as stated). Two failures of different causes are outcomes the       *)
(* caller can tell apart.                                                  *)
(***************************************************************************)
C7_AsStated ==
    (Done /\ Remembered) =>
        LET c1 == FailureCause(memo[1].input[1], memo[1].input[2], memo[1].input[3])
            c2 == FailureCause(left, right, n)
        IN  (c1 # "none" /\ c2 # "none" /\ c1 # c2) => memo[1].result # result

(***************************************************************************)
(* C7 (amended). Every failure, whatever its cause, is reported by the     *)
(* same value None: two failed calls return equal results.                 *)
(***************************************************************************)
C7_OneFailureValue ==
    (Done /\ Remembered) =>
        LET c1 == FailureCause(memo[1].input[1], memo[1].input[2], memo[1].input[3])
            c2 == FailureCause(left, right, n)
        IN  (c1 # "none" /\ c2 # "none") => (memo[1].result = result /\ result = None)

C7_Witness ==
    /\ Done /\ Remembered
    /\ FailureCause(memo[1].input[1], memo[1].input[2], memo[1].input[3])
         = "InsufficientDegree"
    /\ FailureCause(left, right, n) = "NoValidMatching"

(***************************************************************************)
(* C8. Determinism: a call with the arguments of an earlier call returns   *)
(* the result of the earlier call, whatever was called in between.         *)
(***************************************************************************)
C8_Determinism ==
    (Done /\ Remembered /\ memo[1].input = <<left, right, n>>)
        => result = memo[1].result

C8_Witness ==
    /\ Done /\ Remembered
    /\ memo[1].between
    /\ memo[1].input = <<left, right, n>>
    /\ ~result.none

(***************************************************************************)
(* C9. Tie-break order: a successful call returns the lexicographically    *)
(* first Latin assignment (left vertex by left vertex, pairs (j1, j2) with *)
(* j1 < j2 in ascending order), the two edges of left[i] consecutively as  *)
(* (left[i], right[j1]), (left[i], right[j2]).                             *)
(***************************************************************************)
C9_LexFirst ==
    Succeeded =>
        \E a \in LatinAssignments(left, right, n) :
            /\ \A b \in LatinAssignments(left, right, n) : b # a => LexLess(a, b)
            /\ Len(result.edges) = 2 * Len(left)
            /\ \A i \in 1..Len(left) :
                  /\ a[i][1] < a[i][2]
                  /\ result.edges[2 * i - 1] = <<left[i], right[a[i][1]]>>
                  /\ result.edges[2 * i] = <<left[i], right[a[i][2]]>>

C9_Witness ==
    /\ Succeeded
    /\ Cardinality(LatinAssignments(left, right, n)) >= 2
    /\ assignment[1] # <<1, 2>>

(***************************************************************************)
(* C10. Result shape: the result is either the failure value alone or a    *)
(* list of exactly 2k edges (left[i], right[j]); a call that cannot        *)
(* succeed returns the failure value, never a partial list.                *)
(***************************************************************************)
C10_ResultShape ==
    Done =>
        /\ result = None \/
             /\ ~result.none
             /\ Len(result.edges) = 2 * Len(left)
             /\ \A e \in EdgeIndexes :
                   \E i \in 1..Len(left), j \in 1..Len(right) :
                       result.edges[e] = <<left[i], right[j]>>
        /\ (Len(left) # Len(right) \/ LatinAssignments(left, right, n) = {})
              => result = None

C10_Witness ==
    /\ Succeeded
    /\ Len(left) = 3
    /\ Len(result.edges) = 6

(***************************************************************************)
(* C11. Feasible scenario: for left = [2,3,5,7], right = [11,13,17,19],    *)
(* n = 100 the call succeeds, and the known-good edge set                  *)
(* {(2,13),(2,19),(3,11),(3,17),(5,17),(5,19),(7,11),(7,13)} has degree 2  *)
(* on every vertex, every product <= 100, and no two left primes with the  *)
(* same pair of right primes.                                              *)
(***************************************************************************)
KnownGood ==
    { <<2, 13>>, <<2, 19>>, <<3, 11>>, <<3, 17>>,
      <<5, 17>>, <<5, 19>>, <<7, 11>>, <<7, 13>> }

\* an edge set is a Latin matching of the lists l, r under the bound b
IsLatinMatching(E, l, r, b) ==
    /\ \A e \in E : /\ \E i \in 1..Len(l) : e[1] = l[i]
                    /\ \E j \in 1..Len(r) : e[2] = r[j]
                    /\ e[1] * e[2] <= b
    /\ \A i \in 1..Len(l) : Cardinality({e \in E : e[1] = l[i]}) = 2
    /\ \A j \in 1..Len(r) : Cardinality({e \in E : e[2] = r[j]}) = 2
    /\ \A i1, i2 \in 1..Len(l) : i1 # i2 =>
          {e[2] : e \in {x \in E : x[1] = l[i1]}}
            # {e[2] : e \in {x \in E : x[1] = l[i2]}}

C11_FeasibleScenario ==
    (Done /\ <<left, right, n>> = FeasibleCall) =>
        /\ ~result.none
        /\ IsLatinMatching({result.edges[e] : e \in EdgeIndexes}, left, right, n)
        /\ IsLatinMatching(KnownGood, left, right, n)
        /\ KnownGood = {ManualConstructions(100)[e] : e \in 1..8}

C11_Witness ==
    /\ Done /\ <<left, right, n>> = FeasibleCall
    /\ Len(result.edges) = 8

(***************************************************************************)
(* C12. Infeasible scenario: for left = [2,3], right = [89,97], n = 50     *)
(* every vertex has 0 valid partners and the call returns the failure of   *)
(* the degree check, without searching.                                    *)
(***************************************************************************)
C12_InfeasibleScenario ==
    (pc # "idle" /\ <<left, right, n>> = InfeasibleCall) =>
        /\ \A i \in 1..Len(left) : RightPartners(left, right, n, i) = {}
        /\ \A j \in 1..Len(right) : LeftPartners(left, right, n, j) = {}
        /\ Len(left) = Len(right)
        /\ Done /\ result = None
        /\ ~tentative /\ stack = <<>>

C12_Witness ==
    /\ Done /\ <<left, right, n>> = InfeasibleCall
    /\ result = None

(***************************************************************************)
(* C13. Termination: every call that enters the backtracking search        *)
(* eventually returns, with a matching or with failure.                    *)
(***************************************************************************)
C13_Termination == (pc = "search") ~> (pc = "done")

C13_Witness ==
    /\ Done
    /\ tentative
    /\ result = None
    /\ Len(left) = 3

(***************************************************************************)
(* C14. Side-effect freedom: no step of a call changes the lists left and  *)
(* right (or n, or what the caller holds); after every call, failed or     *)
(* successful, the lists are the lists that were passed.                   *)
(***************************************************************************)
C14_SideEffectFree ==
    [][ /\ pc = "search" =>
              (left' = left /\ right' = right /\ n' = n /\ memo' = memo
                 /\ UNCHANGED libvars)
        /\ pc # "search" => (left' \in Lefts /\ right' \in Rights)
      ]_vars

C14_Witness ==
    /\ Succeeded
    /\ Len(left) = 3
    /\ left \in Lefts /\ right \in Rights

(***************************************************************************)
(* C15. sieve_of_eratosthenes(n) returns exactly the primes p with         *)
(* 2 <= p <= n, each once, in ascending order, and the empty list for      *)
(* n < 2.                                                                  *)
(***************************************************************************)
IsPrimeNumber(p) == p >= 2 /\ \A x \in 2..(p - 1) : p % x # 0

C15_SieveExact ==
    (op = "sieve") =>
        /\ \A x, y \in 1..Len(out) : x < y => out[x] < out[y]
        /\ {out[x] : x \in 1..Len(out)} = {p \in 2..arg : IsPrimeNumber(p)}
        /\ arg < 2 => out = <<>>

C15_Witness ==
    /\ op = "sieve"
    /\ arg = 30
    /\ Len(out) = 10

(***************************************************************************)
(* C16. prime_factorization(m, primes) returns the empty set for m <= 1;   *)
(* for m >= 2 and an ascending list primes containing every prime          *)
(* <= sqrt(m) it returns exactly the set of prime divisors of m, and the   *)
(* remainder > 1 left by the loop is itself prime.                         *)
(***************************************************************************)
PrimeDivisors(m) == {p \in 2..m : m % p = 0 /\ IsPrimeNumber(p)}

AdequatePrimes(primes, m) ==
    /\ \A x, y \in 1..Len(primes) : x < y => primes[x] < primes[y]
    /\ \A p \in 2..m : (p * p <= m /\ IsPrimeNumber(p))
          => \E x \in 1..Len(primes) : primes[x] = p

C16_FactorExact ==
    (op = "factor") =>
        /\ arg[1] <= 1 => out = {}
        /\ (arg[1] >= 2 /\ AdequatePrimes(arg[2], arg[1])) =>
              /\ out = PrimeDivisors(arg[1])
              /\ LET rem == FactorLoop(arg[2], 1, arg[1], {})[1]
                 IN  rem > 1 => IsPrimeNumber(rem)

C16_Witness ==
    /\ op = "factor"
    /\ arg[1] >= 2 /\ AdequatePrimes(arg[2], arg[1])
    /\ FactorLoop(arg[2], 1, arg[1], {})[1] > 1
    /\ Cardinality(out) = 3

(***************************************************************************)
(* C17. compute_f(A, primes, max_r) returns as f the smallest r in         *)
(* 1..max_r for which some set of r primes, taken from the primes dividing *)
(* elements of A, covers strictly more than r elements of A (an element is *)
(* covered when all its prime factors lie in the set); max_r + 1 is        *)
(* returned only when there is no such r.                                  *)
(***************************************************************************)
DividingPrimes(A) == UNION {PrimeDivisors(A[x]) : x \in 1..Len(A)}

Covered(A, P) == {x \in 1..Len(A) : PrimeDivisors(A[x]) \subseteq P}

SomeSetCovers(A, r) ==
    \E P \in SUBSET DividingPrimes(A) :
        Cardinality(P) = r /\ Cardinality(Covered(A, P)) > r

C17_AsStated ==
    (op = "compute_f") =>
        /\ out[1] <= arg[3] => SomeSetCovers(arg[1], out[1])
        /\ \A r \in 1..arg[3] : r < out[1] => ~SomeSetCovers(arg[1], r)

(***************************************************************************)
(* C18. Whenever compute_f returns (f, P) with f <= max_r, P contains at   *)
(* most f primes and more than f elements of A are covered by P; otherwise *)
(* it returns exactly (max_r + 1, []).                                     *)
(***************************************************************************)
C18_Soundness ==
    (op = "compute_f") =>
        IF out[1] <= arg[3]
        THEN /\ out[1] >= 1
             /\ Len(out[2]) <= out[1]
             /\ \A x \in 1..Len(out[2]) : IsPrimeNumber(out[2][x])
             /\ Cardinality(Covered(arg[1], SeqSet(out[2]))) > out[1]
             /\ compute_coverage(arg[1], SeqSet(out[2]),
                                 FactorCache(arg[1], arg[2])) > out[1]
        ELSE out = <<arg[3] + 1, <<>>>>

C18_Witness ==
    /\ op = "compute_f"
    /\ arg[3] = 50
    /\ out[1] = 3
    /\ Len(out[2]) = 3

(***************************************************************************)
(* C19. find_best_matching(small_primes, n) returns the largest valid      *)
(* Latin matching over the splits it tries: for t >= 4 the result is a     *)
(* valid matching of some pair of equal-size contiguous windows of the     *)
(* left and right parts, with at least as many edges as                    *)
(* find_latin_matching returns for any split point and any such pair, and  *)
(* it is the first such maximum in the order of the loops; the result is   *)
(* the empty list when t < 4 or no window pair admits a matching.          *)
(***************************************************************************)
\* every split point and every pair of equal-size contiguous windows
AllWindowPairs(t) ==
    {x \in (0..t) \X (0..t) \X (0..t) \X (0..t) :
        x[3] + x[2] <= x[1] /\ x[4] + x[2] <= t - x[1]}

EdgesFor(small, b, x) ==
    LET edges == find_latin_matching(LSub(small, x), RSub(small, x), b)
    IN  IF edges.none THEN <<>> ELSE edges.edges

\* the window pairs whose matching has as many edges as the result
BestTries ==
    {x \in AllWindowPairs(Len(arg[1])) :
        Len(EdgesFor(arg[1], arg[2], x)) = Len(out)}

C19_LargestFirst ==
    (op = "best") =>
        LET small == arg[1]
            b == arg[2]
            all == AllWindowPairs(Len(small))
        IN  /\ Len(small) < 4 => out = <<>>
            /\ (\A x \in all : EdgesFor(small, b, x) = <<>>) => out = <<>>
            /\ \A x \in all : Len(EdgesFor(small, b, x)) <= Len(out)
            /\ out # <<>> =>
                  \E x \in BestTries :
                      /\ out = EdgesFor(small, b, x)
                      /\ Len(out) = 2 * x[2]
                      /\ Cardinality(SeqSet(out)) = Len(out)
                      /\ IsLatinMatching(SeqSet(out), LSub(small, x),
                                         RSub(small, x), b)
                      /\ \A y \in BestTries \ {x} : TryBefore(x, y)

C19_Witness ==
    /\ op = "best"
    /\ Len(arg[1]) >= 4
    /\ Len(out) >= 6
    /\ \E x, y \in BestTries :
          EdgesFor(arg[1], arg[2], x) # EdgesFor(arg[1], arg[2], y)

(***************************************************************************)
(* C20. build_adversarial_set(n, eps) returns, whenever it does not return *)
(* None, a set A of exactly pi(n) + 1 elements, pi(n) being the number of  *)
(* primes <= n, for every n including the tabulated n = 100, 200 and 400.  *)
(***************************************************************************)
PrimeCount(m) == Cardinality({p \in 2..m : IsPrimeNumber(p)})

C20_AsStated ==
    (op = "build" /\ ~out.none) =>
        /\ Cardinality(SeqSet(out.A)) = Len(out.A)
        /\ Len(out.A) = PrimeCount(arg[1]) + 1

(***************************************************************************)
(* C21. run_experiment treats max_trials as a limit on the trials run:     *)
(* when max_trials is given it returns exactly min(len(trials),            *)
(* max_trials) results (len(trials) when it is None), one per trial in     *)
(* trial order, and this number equals the run's recorded total_trials and *)
(* final completed_trials.                                                 *)
(***************************************************************************)
C21_AsStated ==
    (op = "ran") =>
        LET len == Len(arg.trials)
            limit == IF ~arg.given THEN len
                     ELSE IF len < arg.max_trials THEN len ELSE arg.max_trials
        IN  /\ Len(out.results) = limit
            /\ \A x \in 1..Len(out.results) :
                  out.results[x].trial_id = arg.trials[x]
            /\ out.total_trials = Len(out.results)
            /\ out.completed_trials = Len(out.results)

(***************************************************************************)
(* C22. Undo on backtrack: whenever a recursive call backtrack(i + 1)      *)
(* fails, the tentative assignment of left vertex i is fully undone before *)
(* the next candidate is tried, so that whenever backtrack(i) returns      *)
(* failure the degree counters, the used-pair set and the assignment       *)
(* entries are exactly what they were when backtrack(i) was entered.  In   *)
(* the model: the running frame always works on the values it was entered  *)
(* with, and so does backtrack(0) when the whole search has failed.        *)
(***************************************************************************)
C22_UndoOnBacktrack ==
    /\ pc = "search" =>
          /\ Len(entered) = Len(stack)
          /\ Snapshot(assignment, used_pairs, right_degree) = entered[depth]
    /\ (Done /\ result.none /\ stack # <<>>) =>
          /\ depth = 1
          /\ Snapshot(assignment, used_pairs, right_degree) = entered[1]

C22_Witness ==
    /\ Done /\ result.none /\ tentative
    /\ Len(left) >= 3
    /\ stack # <<>>
    /\ Snapshot(assignment, used_pairs, right_degree) = entered[1]
    /\ used_pairs = {}

(***************************************************************************)
(* C23. The used-pair set grows by exactly one pair on every forward step  *)
(* (tentative assignment) and never shrinks during forward search; a pair  *)
(* is removed only when the assignment that added it is backtracked, and   *)
(* it is removed by that same left vertex.                                 *)
(***************************************************************************)
C23_UsedPairsSteps ==
    [][ pc = "search" =>
          /\ Len(stack') > Len(stack) =>
                /\ Len(stack') = Len(stack) + 1
                /\ LET pair == Pair(assignment'[depth][1], assignment'[depth][2])
                   IN  /\ pair \notin used_pairs
                       /\ used_pairs' = used_pairs \cup {pair}
                /\ Cardinality(used_pairs') = Cardinality(used_pairs) + 1
          /\ Len(stack') = Len(stack) => used_pairs' = used_pairs
          /\ Len(stack') < Len(stack) =>
                /\ Len(stack') = Len(stack) - 1
                /\ assignment[depth - 1] # Unassigned
                /\ assignment'[depth - 1] = Unassigned
                /\ LET pair == Pair(assignment[depth - 1][1],
                                    assignment[depth - 1][2])
                   IN  /\ pair \in used_pairs
                       /\ used_pairs' = used_pairs \ {pair}
      ]_vars

C23_Witness ==
    /\ pc = "search"
    /\ depth >= 3
    /\ stack[1] # FirstCursor
    /\ stack[2] # FirstCursor
    /\ Cardinality(used_pairs) = 2

(***************************************************************************)
(* C24. Search-state invariant: in every state reached during the search,  *)
(* each right degree counter equals the number of currently assigned left  *)
(* vertices whose pair contains that right index and is at most 2, the     *)
(* used-pair set is exactly the set of pairs of the currently assigned     *)
(* left vertices, and when the search is at left vertex i exactly the      *)
(* vertices before i are assigned (so the used-pair set has i entries and  *)
(* the degree counters sum to 2i, i counted from 0).                       *)
(***************************************************************************)
Assigned == {i \in 1..Len(assignment) : assignment[i] # Unassigned}

RECURSIVE SumSeq(_)
SumSeq(s) == IF s = <<>> THEN 0 ELSE Head(s) + SumSeq(Tail(s))

C24_SearchState ==
    (pc = "search") =>
        /\ Assigned = 1..(depth - 1)
        /\ \A j \in 1..Len(right) :
              /\ right_degree[j] =
                    Cardinality({i \in Assigned : j \in {assignment[i][1],
                                                         assignment[i][2]}})
              /\ right_degree[j] <= 2
        /\ used_pairs = {Pair(assignment[i][1], assignment[i][2]) : i \in Assigned}
        /\ Cardinality(used_pairs) = depth - 1
        /\ SumSeq(right_degree) = 2 * (depth - 1)

C24_Witness ==
    /\ pc = "search"
    /\ k >= 4
    /\ depth = 3
    /\ stack[1] # FirstCursor
    /\ \E j \in 1..Len(right) : right_degree[j] = 2
    /\ \E j \in 1..Len(right) : right_degree[j] = 0

(***************************************************************************)
(* C25. The final check is never the cause of a rejection: whenever the    *)
(* search reaches i == k (all k left vertices assigned under the per-step  *)
(* constraints), every right vertex already has degree exactly 2, so       *)
(* backtrack(k) always returns success.                                    *)
(***************************************************************************)
C25_FinalCheckPasses ==
    /\ (pc = "search" /\ depth = k + 1) =>
          /\ Len(right_degree) = k
          /\ \A j \in 1..k : right_degree[j] = 2
          /\ AllDegreeTwo(right_degree)
    /\ (Done /\ stack # <<>> /\ depth = k + 1) => ~result.none

C25_Witness ==
    /\ pc = "search"
    /\ depth = k + 1
    /\ k >= 4
    /\ \E d \in 1..k : stack[d] # FirstCursor

(***************************************************************************)
(* C26. For k = 2 find_latin_matching always fails: with two left and two  *)
(* right vertices, even when all four products are <= n (so every vertex   *)
(* has 2 valid partners and the insufficient-degree check passes), the     *)
(* exhaustive search returns failure, because both left vertices would     *)
(* need the same right pair.                                               *)
(***************************************************************************)
C26_TwoAlwaysFails ==
    /\ (Done /\ Len(left) = 2) => result.none
    /\ (pc = "search" /\ k = 2) =>
          /\ depth <= 2
          /\ \A i \in 1..2 : valid[i] = <<1, 2>>
          /\ depth = 2 => used_pairs = {<<1, 2>>}

C26_Witness ==
    /\ Done
    /\ Len(left) = 2 /\ Len(right) = 2
    /\ \A i, j \in 1..2 : left[i] * right[j] <= n
    /\ tentative
    /\ result.none

(***************************************************************************)
(* C27. The four copies of the backtracking constructor are equivalent:    *)
(* for every input other than two empty lists they either all signal       *)
(* failure (None or an empty list) or all return the same edge list in the *)
(* same order.                                                             *)
(***************************************************************************)
SignalsFailure(x) == x.none \/ x.edges = <<>>

CopyResults ==
    {out.erdos983_lib, out.constraint_solver, out.improved_solver,
     out.comprehensive_analysis}

C27_CopiesEquivalent ==
    (op = "copies" /\ ~(arg[1] = <<>> /\ arg[2] = <<>>)) =>
        \/ \A x \in CopyResults : SignalsFailure(x)
        \/ \A x \in CopyResults :
              /\ ~SignalsFailure(x)
              /\ x.edges = out.erdos983_lib.edges

C27_Witness ==
    /\ op = "copies"
    /\ Len(arg[1]) >= 3
    /\ \A x \in CopyResults : ~SignalsFailure(x) /\ Len(x.edges) = 2 * Len(arg[1])

(***************************************************************************)
(* C28. The brute-force constructor agrees with the backtracking           *)
(* constructor on feasibility: for duplicate-free left and right of equal  *)
(* length k with 2 <= k <= 4 and any bound n, build_adversarial_bipartite  *)
(* returns a matching if and only if find_latin_matching returns one, and  *)
(* any matching it returns satisfies the same degree-2, product-bound and  *)
(* Latin-uniqueness properties.                                            *)
(***************************************************************************)
BruteForceCase ==
    /\ op = "brute"
    /\ DupFree(arg[1]) /\ DupFree(arg[2])
    /\ Len(arg[1]) = Len(arg[2])
    /\ Len(arg[1]) >= 2 /\ Len(arg[1]) <= 4

C28_BruteForceAgrees ==
    BruteForceCase =>
        /\ out.adversarial_graph.none <=> out.erdos983_lib.none
        /\ ~out.adversarial_graph.none =>
              /\ Len(out.adversarial_graph.edges) = 2 * Len(arg[1])
              /\ DupFree(out.adversarial_graph.edges)
              /\ IsLatinMatching(SeqSet(out.adversarial_graph.edges),
                                 arg[1], arg[2], arg[3])

C28_Witness ==
    /\ BruteForceCase
    /\ Len(arg[1]) >= 3
    /\ ~out.adversarial_graph.none
    /\ out.adversarial_graph.edges # out.erdos983_lib.edges

(***************************************************************************)
(* C29. Every hard-coded manual construction is a valid Latin matching for *)
(* its n: for each n in {100, 200, 400}, the tabulated edge list gives     *)
(* every left prime exactly 2 edges and every right prime exactly 2 edges, *)
(* assigns no two left primes the same pair of right primes, and has every *)
(* product p * q <= n.                                                     *)
(***************************************************************************)
ValidTable(E, b) ==
    LET lefts == {E[e][1] : e \in 1..Len(E)}
        rights == {E[e][2] : e \in 1..Len(E)}
        partners(p) == {E[e][2] : e \in {x \in 1..Len(E) : E[x][1] = p}}
    IN  /\ DupFree(E)
        /\ lefts \cap rights = {}
        /\ \A p \in lefts : Cardinality({e \in 1..Len(E) : E[e][1] = p}) = 2
        /\ \A q \in rights : Cardinality({e \in 1..Len(E) : E[e][2] = q}) = 2
        /\ \A p1, p2 \in lefts : p1 # p2 => partners(p1) # partners(p2)
        /\ \A e \in 1..Len(E) : E[e][1] * E[e][2] <= b

C29_ManualTablesValid ==
    /\ (op = "build" /\ arg[1] \in ManualNs /\ ~out.none) =>
          /\ out.edges = ManualConstructions(arg[1])
          /\ ValidTable(out.edges, arg[1])
    /\ (op = "manual" /\ arg \in ManualNs) =>
          /\ ~out.none
          /\ out.edges = ManualConstructions(arg)
          /\ ValidTable(out.edges, arg)
    /\ (op = "manual" /\ arg \notin ManualNs) => out.none

C29_Witness ==
    /\ op = "build"
    /\ arg[1] = 400
    /\ ~out.none
    /\ Len(out.edges) = 10
    /\ ValidTable(out.edges, 400)
====
